---- MODULE Spec2Model ----
(***************************************************************************)
(* Session / credential management of SkillCast.                           *)
(*                                                                         *)
(* Server side: the auth controller (login, refreshToken, logout,          *)
(* changePassword), the authenticateToken guard, the admin updateUser      *)
(* handler, the users table and the refresh_tokens table.                  *)
(* Client side: localStorage, the AuthProvider state, and the axios        *)
(* request/response interceptors.                                          *)
(*                                                                         *)
(* Time is counted in seconds, the resolution of the iat/exp claims of a   *)
(* JSON web token.  A token is modelled by what jwt.sign makes it depend   *)
(* on: the payload, the iat/exp stamps and the signing secret.             *)
(***************************************************************************)
EXTENDS Integers, Sequences, FiniteSets, TLC

(* ------------------------------ bounds -------------------------------- *)
\* number of clock advances in a behaviour
MaxTicks == 1
\* number of successful logins in a behaviour
MaxLogins == 2
\* number of UPDATE statements on the users table in a behaviour
MaxEdits == 1
\* number of requests the pages of the browser client have open at once
MaxCalls == 1
\* number of requests a page issues together in a burst
MaxBurst == 2

(* -------------------------- program constants ------------------------- *)
\* expiresIn: "15m"
AccessTTL == 900
\* expiresIn: "7d"
RefreshTTL == 604800
\* newPassword.length < 8
MinPasswordLen == 8

(* ------------------------------ domains ------------------------------- *)
\* users.id of the two seeded accounts the model follows
Users == {1, 2}
Roles == {"admin", "member"}
\* an environment variable that is unset (or empty: both are falsy for ||)
Unset == ""
\* API callers: one device per account; each keeps what its last login returned
Sessions == Users
\* clock advances: one access lifetime, one refresh lifetime
TickSizes == {AccessTTL, RefreshTTL}
\* passwords typed by callers: missing, too short, the seeded one, another
PasswordInputs == {"", "short", "password123", "correcthorse"}
\* passwords typed at login: the seeded one, another
LoginPasswords == {"password123", "correcthorse"}
EmailOf(u) == IF u = 1 THEN "admin@pulse.com" ELSE "sam@pulse.com"
\* emails typed on the device of account s: its own, or one nobody has
EmailInputs(s) == {EmailOf(s), "nobody@pulse.com"}
\* process.env of a deployment that sets both secrets
DeployedEnv == [JWT_SECRET |-> "k_access", JWT_REFRESH_SECRET |-> "k_refresh"]

VARIABLES
  env,        \* process.env of the server
  now,        \* wall clock, seconds
  ticks,      \* clock advances so far
  logins,     \* successful logins so far
  edits,      \* updates of the users table so far
  users,      \* users table: id -> [email, password_hash, role]
  store,      \* refresh_tokens table: set of rows [token, user_id, expires_at]
  held,       \* what each API caller captured at its last login: [rt, at, user]
  revoked,    \* history: a token whose logout completed with success
  last,       \* the last request served and its response, as seen by its caller
  storage,    \* localStorage of the browser: accessToken, refreshToken, user
  cuser,      \* AuthProvider state: user
  loading,    \* AuthProvider state: loading
  redirect,   \* window.location.href was set to "/login"
  calls,      \* requests of the browser client, by slot; slot 0 is the mount effect
  pending     \* a request the server is handling, between two of its awaits

serverVars == <<env, now, ticks, logins, edits, users, store>>
callerVars == <<held, revoked, last>>
clientVars == <<storage, cuser, loading, redirect, calls>>
raceVars == <<pending>>
vars == <<env, now, ticks, logins, edits, users, store, held, revoked, last,
          storage, cuser, loading, redirect, calls, pending>>

(* ------------------------------- tokens ------------------------------- *)
\* no token at all (undefined / null / "")
NoToken == [id |-> 0, role |-> "none", iat |-> 0, exp |-> 0, key |-> "none"]
\* a string that is not a JSON web token
Garbage == [id |-> 0, role |-> "none", iat |-> 0, exp |-> 0, key |-> "garbage"]
NoUser == [id |-> 0, role |-> "none"]

\* jwt.sign(payload, secret, {expiresIn}): iat = now, exp = iat + expiresIn
JwtSign(id, role, secret, expiresIn) ==
  [id |-> id, role |-> role, iat |-> now, exp |-> now + expiresIn, key |-> secret]

\* jwt.verify(token, secret): signature made with secret, and now < exp
JwtVerify(token, secret) ==
  /\ token.key = secret
  /\ now < token.exp

\* bcrypt.hash(password, salt): the hash embeds the salt it was made with
BcryptHash(password, salt) == [salt |-> salt, digest |-> <<"bcrypt", salt, password>>]
\* bcrypt.compare(password, hash): rehash with the salt embedded in hash
BcryptCompare(password, hash) == BcryptHash(password, hash.salt) = hash

(* ------------------------------ secrets ------------------------------- *)
ACCESS_SECRET ==
  IF env.JWT_SECRET # Unset THEN env.JWT_SECRET ELSE "dev_access_secret"
REFRESH_SECRET ==
  IF env.JWT_REFRESH_SECRET # Unset THEN env.JWT_REFRESH_SECRET
  ELSE IF env.JWT_SECRET # Unset THEN env.JWT_SECRET
  ELSE "dev_refresh_secret"

generateTokens(user) ==
  [accessToken  |-> JwtSign(user.id, user.role, ACCESS_SECRET, AccessTTL),
   refreshToken |-> JwtSign(user.id, "none", REFRESH_SECRET, RefreshTTL)]

(* ------------------------------- guard -------------------------------- *)
\* authenticateToken checking the signature only, not the exp claim
authenticateToken_ignoresExpiry(bearer) ==
  IF bearer = NoToken
  THEN [ok |-> FALSE, status |-> 401,
        message |-> "Access Denied: No token provided", user |-> NoUser]
  ELSE IF bearer.key # ACCESS_SECRET
  THEN [ok |-> FALSE, status |-> 403,
        message |-> "Invalid or expired token", user |-> NoUser]
  ELSE [ok |-> TRUE, status |-> 200, message |-> "",
        user |-> [id |-> bearer.id, role |-> bearer.role]]

\* authenticateToken also requiring a refresh_tokens row of the token's user
authenticateToken_checksStore(bearer) ==
  IF bearer = NoToken
  THEN [ok |-> FALSE, status |-> 401,
        message |-> "Access Denied: No token provided", user |-> NoUser]
  ELSE IF ~JwtVerify(bearer, ACCESS_SECRET) \/ {r \in store : r.user_id = bearer.id} = {}
  THEN [ok |-> FALSE, status |-> 403,
        message |-> "Invalid or expired token", user |-> NoUser]
  ELSE [ok |-> TRUE, status |-> 200, message |-> "",
        user |-> [id |-> bearer.id, role |-> bearer.role]]

authenticateToken(bearer) ==
  IF bearer = NoToken
  THEN [ok |-> FALSE, status |-> 401,
        message |-> "Access Denied: No token provided", user |-> NoUser]
  ELSE IF ~JwtVerify(bearer, ACCESS_SECRET)
  THEN [ok |-> FALSE, status |-> 403,
        message |-> "Invalid or expired token", user |-> NoUser]
  ELSE [ok |-> TRUE, status |-> 200, message |-> "",
        user |-> [id |-> bearer.id, role |-> bearer.role]]

(* ------------------------- response records --------------------------- *)
\* what a handler answers and what it leaves in the two tables
Reply(status, message, accessToken, refreshToken, user, users2, store2) ==
  [status |-> status, message |-> message, accessToken |-> accessToken,
   refreshToken |-> refreshToken, user |-> user, users |-> users2,
   store |-> store2]

Fail(status, message) == Reply(status, message, NoToken, NoToken, NoUser, users, store)

StoredTokens == {r.token : r \in store}

(* ------------------------------ handlers ------------------------------ *)
\* login answering with tokens without the INSERT into refresh_tokens
login_skipsInsert(email, password) ==
  IF ACCESS_SECRET = Unset \/ REFRESH_SECRET = Unset
  THEN Fail(500, "Server auth secrets missing")
  ELSE LET rows == {u \in Users : users[u].email = email} IN
    IF rows = {} THEN Fail(401, "Invalid Credentials")
    ELSE LET id == CHOOSE u \in rows : TRUE
             user == [id |-> id, role |-> users[id].role]
             t == generateTokens(user)
         IN IF ~BcryptCompare(password, users[id].password_hash)
            THEN Fail(401, "Invalid Credentials")
            ELSE Reply(200, "", t.accessToken, t.refreshToken, user, users, store)

login(email, password) ==
  IF ACCESS_SECRET = Unset \/ REFRESH_SECRET = Unset
  THEN Fail(500, "Server auth secrets missing")
  ELSE LET rows == {u \in Users : users[u].email = email} IN
    IF rows = {} THEN Fail(401, "Invalid Credentials")
    ELSE LET id == CHOOSE u \in rows : TRUE
             user == [id |-> id, role |-> users[id].role]
             t == generateTokens(user)
         IN IF ~BcryptCompare(password, users[id].password_hash)
            THEN Fail(401, "Invalid Credentials")
            \* token is the PRIMARY KEY of refresh_tokens
            ELSE IF t.refreshToken \in StoredTokens
            THEN Fail(500, "Login server error")
            ELSE Reply(200, "", t.accessToken, t.refreshToken, user, users,
                       store \cup {[token |-> t.refreshToken, user_id |-> id,
                                    expires_at |-> now + RefreshTTL]})

\* refreshToken without the SELECT on refresh_tokens
refreshToken_skipsStore(token) ==
  IF token = NoToken THEN Fail(401, "Refresh token required")
  ELSE IF ~JwtVerify(token, REFRESH_SECRET)
  THEN Fail(403, "Invalid refresh token")
  ELSE LET user == [id |-> token.id, role |-> users[token.id].role] IN
       Reply(200, "", generateTokens(user).accessToken, NoToken, NoUser,
             users, store)

\* refreshToken signing the decoded payload instead of the users row
refreshToken_signsDecoded(token) ==
  IF token = NoToken THEN Fail(401, "Refresh token required")
  ELSE IF token \notin StoredTokens THEN Fail(403, "Token revoked")
  ELSE IF ~JwtVerify(token, REFRESH_SECRET)
  THEN Fail(403, "Invalid refresh token")
  ELSE LET user == [id |-> token.id, role |-> token.role] IN
       Reply(200, "", generateTokens(user).accessToken, NoToken, NoUser,
             users, store)

\* refreshToken consuming the row it was called with
refreshToken_rotates(token) ==
  IF token = NoToken THEN Fail(401, "Refresh token required")
  ELSE IF token \notin StoredTokens THEN Fail(403, "Token revoked")
  ELSE IF ~JwtVerify(token, REFRESH_SECRET)
  THEN Fail(403, "Invalid refresh token")
  ELSE LET user == [id |-> token.id, role |-> users[token.id].role] IN
       Reply(200, "", generateTokens(user).accessToken, NoToken, NoUser,
             users, {r \in store : r.token # token})

\* refreshToken running jwt.verify before the SELECT on refresh_tokens
refreshToken_verifiesFirst(token) ==
  IF token = NoToken THEN Fail(401, "Refresh token required")
  ELSE IF ~JwtVerify(token, REFRESH_SECRET)
  THEN Fail(403, "Invalid refresh token")
  ELSE IF token \notin StoredTokens THEN Fail(403, "Token revoked")
  ELSE LET user == [id |-> token.id, role |-> users[token.id].role] IN
       Reply(200, "", generateTokens(user).accessToken, NoToken, NoUser,
             users, store)

refreshToken(token) ==
  IF token = NoToken THEN Fail(401, "Refresh token required")
  ELSE IF token \notin StoredTokens THEN Fail(403, "Token revoked")
  ELSE IF ~JwtVerify(token, REFRESH_SECRET)
  THEN Fail(403, "Invalid refresh token")
  ELSE LET user == [id |-> token.id, role |-> users[token.id].role] IN
       Reply(200, "", generateTokens(user).accessToken, NoToken, NoUser,
             users, store)

\* logout answering 404 when the DELETE removed no row
logout_reportsMissing(token) ==
  IF token \notin StoredTokens
  THEN Fail(404, "Token not found")
  ELSE Reply(200, "Logged out successfully", NoToken, NoToken, NoUser, users,
             {r \in store : r.token # token})

logout(token) ==
  Reply(200, "Logged out successfully", NoToken, NoToken, NoUser, users,
        {r \in store : r.token # token})

\* bcrypt.genSalt(12): a salt no earlier hash was made with
genSalt == edits + 1

\* changePassword without the DELETE on refresh_tokens
changePassword_keepsSessions(reqUser, currentPassword, newPassword) ==
  IF currentPassword = "" \/ newPassword = ""
  THEN Fail(400, "Current and new password are required")
  ELSE IF Len(newPassword) < MinPasswordLen
  THEN Fail(400, "New password must be at least 8 characters")
  ELSE IF reqUser.id \notin Users THEN Fail(404, "User not found")
  ELSE IF ~BcryptCompare(currentPassword, users[reqUser.id].password_hash)
  THEN Fail(401, "Current password is incorrect")
  ELSE Reply(200, "Password updated successfully", NoToken, NoToken, NoUser,
             [users EXCEPT ![reqUser.id].password_hash = BcryptHash(newPassword, genSalt)],
             store)

\* changePassword deleting the sessions before it compares the password
changePassword_deletesFirst(reqUser, currentPassword, newPassword) ==
  IF currentPassword = "" \/ newPassword = ""
  THEN Fail(400, "Current and new password are required")
  ELSE IF Len(newPassword) < MinPasswordLen
  THEN Fail(400, "New password must be at least 8 characters")
  ELSE IF reqUser.id \notin Users THEN Fail(404, "User not found")
  ELSE IF ~BcryptCompare(currentPassword, users[reqUser.id].password_hash)
  THEN Reply(401, "Current password is incorrect", NoToken, NoToken, NoUser,
             users, {r \in store : r.user_id # reqUser.id})
  ELSE Reply(200, "Password updated successfully", NoToken, NoToken, NoUser,
             [users EXCEPT ![reqUser.id].password_hash = BcryptHash(newPassword, genSalt)],
             {r \in store : r.user_id # reqUser.id})

changePassword(reqUser, currentPassword, newPassword) ==
  IF currentPassword = "" \/ newPassword = ""
  THEN Fail(400, "Current and new password are required")
  ELSE IF Len(newPassword) < MinPasswordLen
  THEN Fail(400, "New password must be at least 8 characters")
  ELSE IF reqUser.id \notin Users THEN Fail(404, "User not found")
  ELSE IF ~BcryptCompare(currentPassword, users[reqUser.id].password_hash)
  THEN Fail(401, "Current password is incorrect")
  ELSE Reply(200, "Password updated successfully", NoToken, NoToken, NoUser,
             [users EXCEPT ![reqUser.id].password_hash = BcryptHash(newPassword, genSalt)],
             {r \in store : r.user_id # reqUser.id})

\* the users row of an account after DELETE FROM users: no lookup matches it
DeletedRow == [email |-> "", password_hash |-> BcryptHash("", 0), role |-> "none"]

\* DELETE /users/:id past the guard; refresh_tokens rows go with ON DELETE CASCADE
deleteUser(reqUser, id) ==
  IF reqUser.role # "admin" THEN Fail(403, "Forbidden - Admin only")
  ELSE IF reqUser.id = id THEN Fail(400, "Cannot delete your own account")
  ELSE IF id \notin Users \/ users[id] = DeletedRow THEN Fail(404, "User not found")
  ELSE Reply(200, "User deleted successfully", NoToken, NoToken, NoUser,
             [users EXCEPT ![id] = DeletedRow],
             {r \in store : r.user_id # id})

\* updateUser deciding on the role stored for the caller, not the token's
updateUser_readsStoredRole(reqUser, id, role) ==
  IF users[reqUser.id].role # "admin" THEN Fail(403, "Forbidden - Admin only")
  ELSE IF reqUser.id = id /\ role = "member"
  THEN Fail(400, "Cannot downgrade your own admin role")
  ELSE IF id \notin Users THEN Fail(404, "User not found")
  ELSE Reply(200, "", NoToken, NoToken, [id |-> id, role |-> role],
             [users EXCEPT ![id].role = role], store)

updateUser(reqUser, id, role) ==
  IF reqUser.role # "admin" THEN Fail(403, "Forbidden - Admin only")
  ELSE IF reqUser.id = id /\ role = "member"
  THEN Fail(400, "Cannot downgrade your own admin role")
  ELSE IF id \notin Users THEN Fail(404, "User not found")
  ELSE Reply(200, "", NoToken, NoToken, [id |-> id, role |-> role],
             [users EXCEPT ![id].role = role], store)

\* a route "authenticateToken, handler": the handler runs only past the guard
Guarded(bearer, reply) ==
  IF authenticateToken(bearer).ok THEN reply
  ELSE Fail(authenticateToken(bearer).status, authenticateToken(bearer).message)

(* ----------------------------- the state ------------------------------ *)
NoHeld == [rt |-> NoToken, at |-> NoToken, user |-> NoUser]

Seen(op, token, uid, cur, new, again, r) ==
  [op |-> op, token |-> token, uid |-> uid, cur |-> cur, new |-> new,
   again |-> again,
   status |-> r.status, message |-> r.message, accessToken |-> r.accessToken,
   refreshToken |-> r.refreshToken, user |-> r.user]

\* no exchange is open: the previous response has been delivered
Idle == last.op = "none"
\* the request repeats the one just served with success
Repeats(op, token) == last.op = op /\ last.token = token /\ last.status = 200

(* ------------------------- the browser client ------------------------ *)
\* localStorage after clear()
EmptyStorage == [accessToken |-> NoToken, refreshToken |-> NoToken, user |-> NoUser]

CallIds == 0..(IF MaxBurst > MaxCalls THEN MaxBurst ELSE MaxCalls)
PageCalls == 1..MaxCalls
\* slots of the requests a page issues together
BurstCalls == 1..MaxBurst

\* an HTTP response as axios hands it over; status 0: no response at all
Res(st, msg, at, rt, u) ==
  [status |-> st, message |-> msg, accessToken |-> at, refreshToken |-> rt,
   user |-> u]
NoRes == Res(-1, "", NoToken, NoToken, NoUser)
NetworkError == Res(0, "Network Error", NoToken, NoToken, NoUser)
ResOf(r) == Res(r.status, r.message, r.accessToken, r.refreshToken, r.user)

\* a request of the client: kind is the operation that made it, pc where it
\* stands, retry the _retry mark on its config, bearer the Authorization
\* header it was sent with, token the refresh token in its body, a1 and a2 its
\* other body fields, res the latest response, err the response the
\* interceptor is recovering from, rtok the token of the interceptor's refresh
NoCall ==
  [kind |-> "none", pc |-> "none", retry |-> FALSE, bearer |-> NoToken,
   token |-> NoToken, a1 |-> "", a2 |-> "", res |-> NoRes, err |-> NoRes,
   rtok |-> NoToken, sends |-> 0, refreshes |-> 0, ok |-> FALSE]

\* a page just loaded: the AuthProvider is constructed, its effect not yet run
FreshPage ==
  [c \in CallIds |-> IF c = 0 THEN [NoCall EXCEPT !.kind = "init", !.pc = "mount"]
                     ELSE NoCall]

\* no request is between two awaits
NoPending ==
  [pc |-> "none", token |-> NoToken, found |-> FALSE, role |-> "none",
   uid |-> 0, hash |-> BcryptHash("", 0), a1 |-> "", a2 |-> ""]

NoExchange == Seen("none", NoToken, 0, "", "", FALSE, Fail(0, ""))

Init ==
  /\ env = DeployedEnv
  /\ now = 0
  /\ ticks = 0
  /\ logins = 0
  /\ edits = 0
  /\ users = [u \in Users |->
        [email |-> EmailOf(u),
         password_hash |-> BcryptHash("password123", 0),
         role |-> IF u = 1 THEN "admin" ELSE "member"]]
  /\ store = {}
  /\ held = [s \in Sessions |-> NoHeld]
  /\ revoked = NoToken
  /\ last = NoExchange
  /\ storage = EmptyStorage
  /\ cuser = NoUser
  /\ loading = TRUE
  /\ redirect = FALSE
  /\ calls = FreshPage
  /\ pending = NoPending

\* process.env of the deployments the fallbacks of the two secrets tell apart
Envs == [JWT_SECRET : {Unset, "k_access"}, JWT_REFRESH_SECRET : {Unset, "k_refresh"}]

\* the state after construction under any of these deployments
InitEnv ==
  /\ env \in Envs
  /\ now = 0
  /\ ticks = 0
  /\ logins = 0
  /\ edits = 0
  /\ users = [u \in Users |->
        [email |-> EmailOf(u),
         password_hash |-> BcryptHash("password123", 0),
         role |-> IF u = 1 THEN "admin" ELSE "member"]]
  /\ store = {}
  /\ held = [s \in Sessions |-> NoHeld]
  /\ revoked = NoToken
  /\ last = NoExchange
  /\ storage = EmptyStorage
  /\ cuser = NoUser
  /\ loading = TRUE
  /\ redirect = FALSE
  /\ calls = FreshPage
  /\ pending = NoPending

\* tokens a caller can put in a request: what it captured, nothing, or junk
Presentable(s) == {held[s].rt, held[s].at, NoToken, Garbage}

(* ------------------------------ actions ------------------------------- *)
Tick(d) ==
  /\ Idle
  /\ ticks < MaxTicks
  /\ now' = now + d
  /\ ticks' = ticks + 1
  /\ UNCHANGED <<env, logins, edits, users, store, held, revoked, last>>
  /\ UNCHANGED clientVars /\ UNCHANGED raceVars

\* the response reaches its caller and the exchange is over
Deliver ==
  /\ ~Idle
  /\ last' = NoExchange
  /\ UNCHANGED <<env, now, ticks, logins, edits, users, store, held, revoked>>
  /\ UNCHANGED clientVars /\ UNCHANGED raceVars

Login(s, email, password) ==
  LET r == login(email, password) IN
  /\ Idle
  /\ r.status = 200 => logins < MaxLogins
  /\ logins' = IF r.status = 200 THEN logins + 1 ELSE logins
  /\ store' = r.store
  /\ users' = r.users
  /\ held' = IF r.status = 200
             THEN [held EXCEPT ![s] = [rt |-> r.refreshToken,
                                       at |-> r.accessToken, user |-> r.user]]
             ELSE held
  /\ last' = Seen("login", NoToken, r.user.id, email, password, FALSE, r)
  /\ UNCHANGED <<env, now, ticks, edits, revoked>>
  /\ UNCHANGED clientVars /\ UNCHANGED raceVars

Refresh(s, token) ==
  LET r == refreshToken(token) IN
  /\ Idle \/ Repeats("refresh", token)
  /\ store' = r.store
  /\ users' = r.users
  /\ last' = Seen("refresh", token, token.id, "", "", Repeats("refresh", token), r)
  /\ UNCHANGED <<env, now, ticks, logins, edits, held, revoked>>
  /\ UNCHANGED clientVars /\ UNCHANGED raceVars

\* the history variable follows one revoked token, any of them
Logout(s, bearer, token) ==
  LET r == Guarded(bearer, logout(token)) IN
  /\ Idle \/ Repeats("logout", token)
  /\ store' = r.store
  /\ users' = r.users
  /\ \/ revoked' = revoked
     \/ r.status = 200 /\ token \notin {NoToken, Garbage} /\ revoked' = token
  /\ last' = Seen("logout", token, authenticateToken(bearer).user.id, "", "",
                  Repeats("logout", token), r)
  /\ UNCHANGED <<env, now, ticks, logins, edits, held>>
  /\ UNCHANGED clientVars /\ UNCHANGED raceVars

ChangePassword(s, bearer, currentPassword, newPassword) ==
  LET r == Guarded(bearer, changePassword(authenticateToken(bearer).user,
                                          currentPassword, newPassword)) IN
  /\ Idle
  /\ r.status = 200 => edits < MaxEdits
  /\ edits' = IF r.status = 200 THEN edits + 1 ELSE edits
  /\ store' = r.store
  /\ users' = r.users
  /\ last' = Seen("changePassword", NoToken, authenticateToken(bearer).user.id,
                  currentPassword, newPassword, FALSE, r)
  /\ UNCHANGED <<env, now, ticks, logins, held, revoked>>
  /\ UNCHANGED clientVars /\ UNCHANGED raceVars

UpdateUser(s, bearer, id, role) ==
  LET r == Guarded(bearer, updateUser(authenticateToken(bearer).user, id, role)) IN
  /\ Idle
  /\ r.status = 200 => edits < MaxEdits
  /\ edits' = IF r.status = 200 THEN edits + 1 ELSE edits
  /\ store' = r.store
  /\ users' = r.users
  /\ last' = Seen("updateUser", NoToken, id, "", "", FALSE, r)
  /\ UNCHANGED <<env, now, ticks, logins, held, revoked>>
  /\ UNCHANGED clientVars /\ UNCHANGED raceVars

\* request inputs: every bearer with the caller's own data, and every datum
\* with the caller's own access token
LogoutInputs(s) ==
  {<<b, held[s].rt>> : b \in Presentable(s)}
    \cup {<<held[s].at, t>> : t \in Presentable(s) \cup {revoked}}
ChangePasswordInputs(s) ==
  {<<b, "password123", "correcthorse">> : b \in Presentable(s)}
    \cup {<<held[s].at, c, n>> : c \in PasswordInputs \ {"short"},
                                n \in PasswordInputs}

Next ==
  \/ \E d \in TickSizes : Tick(d)
  \/ Deliver
  \/ \E s \in Sessions : \E e \in EmailInputs(s), p \in LoginPasswords :
        Login(s, e, p)
  \/ \E s \in Sessions : \E t \in Presentable(s) \cup {revoked} : Refresh(s, t)
  \/ \E s \in Sessions : \E i \in LogoutInputs(s) : Logout(s, i[1], i[2])
  \/ \E s \in Sessions : \E i \in ChangePasswordInputs(s) :
        ChangePassword(s, i[1], i[2], i[3])
  \/ \E s \in Sessions : \E b \in Presentable(s) :
        \E u \in Users, r \in Roles : UpdateUser(s, b, u, r)

Spec == Init /\ [][Next]_vars

\* the server under any deployment of its secrets
SpecEnv == InitEnv /\ [][Next]_vars

(* ------------- refreshToken, one await at a time ---------------------- *)
\* refreshToken up to its first await: the SELECT on refresh_tokens is run
RefreshSelect(s, token) ==
  /\ pending.pc = "none"
  /\ token # NoToken
  /\ pending' = [NoPending EXCEPT !.pc = "selected", !.token = token,
                                   !.found = token \in StoredTokens]
  /\ UNCHANGED <<env, now, ticks, logins, edits, users, store, held, revoked, last>>
  /\ UNCHANGED clientVars

\* from the rows of the first SELECT to the second await: no row, 403; else
\* jwt.verify, 403 if it throws; else the SELECT on users is run
RefreshLookup ==
  /\ pending.pc = "selected"
  /\ IF ~pending.found
     THEN /\ Idle
          /\ last' = Seen("refresh", pending.token, pending.token.id, "", "",
                          FALSE, Fail(403, "Token revoked"))
          /\ pending' = NoPending
     ELSE IF ~JwtVerify(pending.token, REFRESH_SECRET)
     THEN /\ Idle
          /\ last' = Seen("refresh", pending.token, pending.token.id, "", "",
                          FALSE, Fail(403, "Invalid refresh token"))
          /\ pending' = NoPending
     ELSE /\ last' = last
          /\ pending' = [pending EXCEPT !.pc = "verified",
                                        !.role = users[pending.token.id].role]
  /\ UNCHANGED <<env, now, ticks, logins, edits, users, store, held, revoked>>
  /\ UNCHANGED clientVars

\* from the row of the second SELECT to the response: generateTokens, res.json
RefreshRespond ==
  LET user == [id |-> pending.token.id, role |-> pending.role] IN
  /\ pending.pc = "verified"
  /\ Idle
  /\ last' = Seen("refresh", pending.token, pending.token.id, "", "", FALSE,
                  Reply(200, "", generateTokens(user).accessToken, NoToken,
                        NoUser, users, store))
  /\ pending' = NoPending
  /\ UNCHANGED <<env, now, ticks, logins, edits, users, store, held, revoked>>
  /\ UNCHANGED clientVars

(* ---------------- login, one await at a time ------------------------- *)
\* login up to the await of its INSERT, for credentials that match: the
\* SELECT on users and bcrypt.compare are run on the row as it is now
LoginSelect(s, email, password) ==
  /\ pending.pc = "none"
  /\ users[s].email = email
  /\ BcryptCompare(password, users[s].password_hash)
  /\ pending' = [NoPending EXCEPT !.pc = "matched", !.uid = s,
                                   !.role = users[s].role,
                                   !.a1 = email, !.a2 = password]
  /\ UNCHANGED <<env, now, ticks, logins, edits, users, store, held, revoked, last>>
  /\ UNCHANGED clientVars

\* generateTokens for the row that was read, the INSERT, and the response
LoginInsert ==
  LET user == [id |-> pending.uid, role |-> pending.role]
      t == generateTokens(user)
      r == IF t.refreshToken \in StoredTokens
           THEN Fail(500, "Login server error")
           ELSE Reply(200, "", t.accessToken, t.refreshToken, user, users,
                      store \cup {[token |-> t.refreshToken, user_id |-> user.id,
                                   expires_at |-> now + RefreshTTL]})
  IN
  /\ pending.pc = "matched"
  /\ Idle
  /\ r.status = 200 => logins < MaxLogins
  /\ logins' = IF r.status = 200 THEN logins + 1 ELSE logins
  /\ store' = r.store
  /\ held' = IF r.status = 200
             THEN [held EXCEPT ![pending.uid] =
                     [rt |-> r.refreshToken, at |-> r.accessToken, user |-> r.user]]
             ELSE held
  /\ last' = Seen("login", NoToken, r.user.id, pending.a1, pending.a2, FALSE, r)
  /\ pending' = NoPending
  /\ UNCHANGED <<env, now, ticks, edits, users, revoked>>
  /\ UNCHANGED clientVars

(* ------------- changePassword, one await at a time -------------------- *)
\* changePassword up to the await of its DELETE, for a request that passes
\* the guard, the validation and bcrypt.compare: the UPDATE on users is run
ChangePasswordUpdate(s, bearer, currentPassword, newPassword) ==
  LET reqUser == authenticateToken(bearer).user
      r == Guarded(bearer, changePassword(reqUser, currentPassword, newPassword))
  IN
  /\ pending.pc = "none"
  /\ r.status = 200
  /\ edits < MaxEdits
  /\ edits' = edits + 1
  /\ users' = r.users
  /\ pending' = [NoPending EXCEPT !.pc = "updated", !.uid = reqUser.id,
                                   !.hash = users[reqUser.id].password_hash,
                                   !.a1 = currentPassword, !.a2 = newPassword]
  /\ UNCHANGED <<env, now, ticks, logins, store, held, revoked, last>>
  /\ UNCHANGED clientVars

\* the DELETE on refresh_tokens is run and the response is sent
ChangePasswordDelete ==
  /\ pending.pc = "updated"
  /\ Idle
  /\ store' = {r \in store : r.user_id # pending.uid}
  /\ last' = Seen("changePassword", NoToken, pending.uid, pending.a1, pending.a2,
                  FALSE, Reply(200, "Password updated successfully", NoToken,
                               NoToken, NoUser, users, store'))
  /\ pending' = NoPending
  /\ UNCHANGED <<env, now, ticks, logins, edits, users, held, revoked>>
  /\ UNCHANGED clientVars

\* the DELETE on refresh_tokens rejects (the database is unreachable or the
\* statement fails): the catch block answers 500
ChangePasswordDeleteFails ==
  /\ pending.pc = "updated"
  /\ Idle
  /\ last' = Seen("changePassword", NoToken, pending.uid, pending.a1, pending.a2,
                  FALSE, Fail(500, "Failed to update password"))
  /\ pending' = NoPending
  /\ UNCHANGED <<env, now, ticks, logins, edits, users, store, held, revoked>>
  /\ UNCHANGED clientVars

\* the server handling one request await by await, concurrently with others
NextRace ==
  \/ \E d \in TickSizes : Tick(d)
  \/ Deliver
  \/ \E s \in Sessions : \E e \in EmailInputs(s), p \in LoginPasswords :
        Login(s, e, p)
  \/ \E s \in Sessions : \E i \in LogoutInputs(s) : Logout(s, i[1], i[2])
  \/ \E s \in Sessions : \E i \in ChangePasswordInputs(s) :
        ChangePassword(s, i[1], i[2], i[3])
  \/ \E s \in Sessions : \E t \in Presentable(s) \cup {revoked} :
        RefreshSelect(s, t)
  \/ RefreshLookup
  \/ RefreshRespond
  \/ \E s \in Sessions : \E p \in LoginPasswords : LoginSelect(s, EmailOf(s), p)
  \/ LoginInsert
  \/ \E s \in Sessions : \E i \in ChangePasswordInputs(s) :
        ChangePasswordUpdate(s, i[1], i[2], i[3])
  \/ ChangePasswordDelete
  \/ ChangePasswordDeleteFails

SpecRace == Init /\ [][NextRace]_vars

(* ------------------- the browser client: operations ------------------- *)
\* emails and passwords typed into the login form
ClientEmails == {"admin@pulse.com", "sam@pulse.com"}
\* statuses a server or a proxy in front of it may answer with
AnyStatuses == {200, 401, 403, 500}
\* tokens in a 2xx body of a server that is not the one modelled here
AnyToken == [id |-> 1, role |-> "admin", iat |-> 0, exp |-> 0, key |-> "k_other"]

Ok2xx(res) == res.status >= 200 /\ res.status < 300

\* api.interceptors.request: the bearer is read from localStorage at send time
SendVia(call, st) ==
  [call EXCEPT !.pc = "sent", !.bearer = st.accessToken, !.sends = call.sends + 1]

\* the response interceptor's test for starting a refresh
ShouldRefresh_ignoresRetry(res, retry) == res.status = 401
ShouldRefresh(res, retry) == res.status = 401 /\ ~retry

\* what the caller of a settled request does to localStorage and the
\* AuthProvider state: tryRefresh, login, logout; other callers touch neither
AfterSettle_clearsOnSuccess(kind, ok, res, st, u, l) ==
  IF kind = "init"
  THEN IF ok
       THEN [storage |-> [st EXCEPT !.accessToken = res.accessToken],
             cuser |-> u, loading |-> FALSE]
       ELSE [storage |-> EmptyStorage, cuser |-> NoUser, loading |-> FALSE]
  ELSE IF kind = "login"
  THEN IF ok
       THEN [storage |-> [accessToken |-> res.accessToken,
                          refreshToken |-> res.refreshToken, user |-> res.user],
             cuser |-> res.user, loading |-> l]
       ELSE [storage |-> st, cuser |-> u, loading |-> l]
  ELSE IF kind = "logout" /\ ok
  THEN [storage |-> EmptyStorage, cuser |-> NoUser, loading |-> l]
  ELSE [storage |-> st, cuser |-> u, loading |-> l]

\* the continuations with a tryRefresh whose catch block does nothing
AfterSettle_keepsOnInitFailure(kind, ok, res, st, u, l) ==
  IF kind = "init"
  THEN IF ok
       THEN [storage |-> [st EXCEPT !.accessToken = res.accessToken],
             cuser |-> u, loading |-> FALSE]
       ELSE [storage |-> st, cuser |-> u, loading |-> FALSE]
  ELSE IF kind = "login"
  THEN IF ok
       THEN [storage |-> [accessToken |-> res.accessToken,
                          refreshToken |-> res.refreshToken, user |-> res.user],
             cuser |-> res.user, loading |-> l]
       ELSE [storage |-> st, cuser |-> u, loading |-> l]
  ELSE IF kind = "logout"
  THEN [storage |-> EmptyStorage, cuser |-> NoUser, loading |-> l]
  ELSE [storage |-> st, cuser |-> u, loading |-> l]

\* the continuations with a tryRefresh that has no finally block: loading is
\* ended on its success path only
AfterSettle_noFinally(kind, ok, res, st, u, l) ==
  IF kind = "init"
  THEN IF ok
       THEN [storage |-> [st EXCEPT !.accessToken = res.accessToken],
             cuser |-> u, loading |-> FALSE]
       ELSE [storage |-> EmptyStorage, cuser |-> NoUser, loading |-> l]
  ELSE IF kind = "login"
  THEN IF ok
       THEN [storage |-> [accessToken |-> res.accessToken,
                          refreshToken |-> res.refreshToken, user |-> res.user],
             cuser |-> res.user, loading |-> l]
       ELSE [storage |-> st, cuser |-> u, loading |-> l]
  ELSE IF kind = "logout"
  THEN [storage |-> EmptyStorage, cuser |-> NoUser, loading |-> l]
  ELSE [storage |-> st, cuser |-> u, loading |-> l]

AfterSettle(kind, ok, res, st, u, l) ==
  IF kind = "init"
  THEN IF ok
       THEN [storage |-> [st EXCEPT !.accessToken = res.accessToken],
             cuser |-> u, loading |-> FALSE]
       ELSE [storage |-> EmptyStorage, cuser |-> NoUser, loading |-> FALSE]
  ELSE IF kind = "login"
  THEN IF ok
       THEN [storage |-> [accessToken |-> res.accessToken,
                          refreshToken |-> res.refreshToken, user |-> res.user],
             cuser |-> res.user, loading |-> l]
       ELSE [storage |-> st, cuser |-> u, loading |-> l]
  ELSE IF kind = "logout"
  THEN [storage |-> EmptyStorage, cuser |-> NoUser, loading |-> l]
  ELSE [storage |-> st, cuser |-> u, loading |-> l]

\* the request c resolves (ok) or rejects to its caller, whose continuation
\* runs on localStorage as st
Settle(c, ok, st) ==
  LET a == AfterSettle(calls[c].kind, ok, calls[c].res, st, cuser, loading) IN
  /\ storage' = a.storage
  /\ cuser' = a.cuser
  /\ loading' = a.loading
  /\ calls' = [calls EXCEPT ![c].pc = "done", ![c].ok = ok]

\* the mount effect has run: it runs after the first render, before any
\* handler of the page can be invoked
Mounted == calls[0].pc # "mount"

\* the effect of AuthProvider: hydrate the user, then tryRefresh
Mount ==
  /\ calls[0].pc = "mount"
  /\ cuser' = storage.user
  /\ IF storage.refreshToken = NoToken
     THEN /\ loading' = FALSE
          /\ calls' = [calls EXCEPT ![0].pc = "done", ![0].ok = TRUE]
     ELSE /\ loading' = loading
          /\ calls' = [calls EXCEPT ![0] =
               SendVia([calls[0] EXCEPT !.token = storage.refreshToken], storage)]
  /\ UNCHANGED <<storage, redirect>>
  /\ UNCHANGED serverVars /\ UNCHANGED callerVars /\ UNCHANGED raceVars

\* login(email, password) of the AuthProvider
StartLogin(c, email, password) ==
  /\ Mounted
  /\ calls[c].pc = "none"
  /\ calls' = [calls EXCEPT ![c] =
       SendVia([NoCall EXCEPT !.kind = "login", !.a1 = email, !.a2 = password],
               storage)]
  /\ UNCHANGED <<storage, cuser, loading, redirect>>
  /\ UNCHANGED serverVars /\ UNCHANGED callerVars /\ UNCHANGED raceVars

\* logout() of the AuthProvider: the request is made only with a refresh token
StartLogout(c) ==
  /\ Mounted
  /\ calls[c].pc = "none"
  /\ IF storage.refreshToken # NoToken
     THEN /\ calls' = [calls EXCEPT ![c] =
               SendVia([NoCall EXCEPT !.kind = "logout",
                                      !.token = storage.refreshToken], storage)]
          /\ UNCHANGED <<storage, cuser, loading>>
     ELSE LET a == AfterSettle("logout", TRUE, NoRes, storage, cuser, loading) IN
          /\ storage' = a.storage
          /\ cuser' = a.cuser
          /\ loading' = a.loading
          /\ calls' = [calls EXCEPT ![c] =
               [NoCall EXCEPT !.kind = "logout", !.pc = "done", !.ok = TRUE]]
  /\ UNCHANGED redirect
  /\ UNCHANGED serverVars /\ UNCHANGED callerVars /\ UNCHANGED raceVars

\* the admin dashboard's fetchUsers: made when the provider's user is an admin
StartGetAllUsers(c) ==
  /\ Mounted
  /\ calls[c].pc = "none"
  /\ cuser.role = "admin"
  /\ calls' = [calls EXCEPT ![c] =
       SendVia([NoCall EXCEPT !.kind = "getAllUsers"], storage)]
  /\ UNCHANGED <<storage, cuser, loading, redirect>>
  /\ UNCHANGED serverVars /\ UNCHANGED callerVars /\ UNCHANGED raceVars

\* the profile page's password form: it posts only a new password of 8 or more
StartChangePassword(c, currentPassword, newPassword) ==
  /\ Mounted
  /\ calls[c].pc = "none"
  /\ Len(newPassword) >= MinPasswordLen
  /\ calls' = [calls EXCEPT ![c] =
       SendVia([NoCall EXCEPT !.kind = "changePassword", !.a1 = currentPassword,
                              !.a2 = newPassword], storage)]
  /\ UNCHANGED <<storage, cuser, loading, redirect>>
  /\ UNCHANGED serverVars /\ UNCHANGED callerVars /\ UNCHANGED raceVars

\* an interceptor that starts no refresh of its own for request c while the
\* refresh made for another request is in flight
Receive_sharesRefresh(c) ==
  /\ calls[c].pc = "responded"
  /\ IF Ok2xx(calls[c].res)
     THEN Settle(c, TRUE, storage) /\ UNCHANGED redirect
     ELSE IF ShouldRefresh(calls[c].res, calls[c].retry)
     THEN /\ calls' = [calls EXCEPT ![c].retry = TRUE,
                                    ![c].err = calls[c].res,
                                    ![c].rtok = storage.refreshToken,
                                    ![c].refreshes =
                                       IF \E d \in CallIds \ {c} :
                                            calls[d].pc = "refreshSent"
                                       THEN calls[c].refreshes
                                       ELSE calls[c].refreshes + 1,
                                    ![c].pc = "refreshSent"]
          /\ UNCHANGED <<storage, cuser, loading, redirect>>
     ELSE Settle(c, FALSE, storage) /\ UNCHANGED redirect
  /\ UNCHANGED serverVars /\ UNCHANGED callerVars /\ UNCHANGED raceVars

\* api.interceptors.response on the response of request c
Receive(c) ==
  /\ calls[c].pc = "responded"
  /\ IF Ok2xx(calls[c].res)
     THEN Settle(c, TRUE, storage) /\ UNCHANGED redirect
     ELSE IF ShouldRefresh(calls[c].res, calls[c].retry)
     THEN /\ calls' = [calls EXCEPT ![c].retry = TRUE,
                                    ![c].err = calls[c].res,
                                    ![c].rtok = storage.refreshToken,
                                    ![c].refreshes = calls[c].refreshes + 1,
                                    ![c].pc = "refreshSent"]
          /\ UNCHANGED <<storage, cuser, loading, redirect>>
     ELSE Settle(c, FALSE, storage) /\ UNCHANGED redirect
  /\ UNCHANGED serverVars /\ UNCHANGED callerVars /\ UNCHANGED raceVars

\* the interceptor with a catch block that only logs the refresh error
ReceiveRefresh_keepsStorage(c) ==
  /\ calls[c].pc = "refreshResponded"
  /\ IF Ok2xx(calls[c].res)
     THEN LET st == [storage EXCEPT !.accessToken = calls[c].res.accessToken] IN
          /\ storage' = st
          /\ calls' = [calls EXCEPT ![c] = SendVia(calls[c], st)]
          /\ UNCHANGED <<cuser, loading, redirect>>
     ELSE LET a == AfterSettle(calls[c].kind, FALSE, calls[c].err, storage,
                               cuser, loading) IN
          /\ storage' = a.storage
          /\ cuser' = a.cuser
          /\ loading' = a.loading
          /\ redirect' = redirect
          /\ calls' = [calls EXCEPT ![c].pc = "done", ![c].ok = FALSE,
                                    ![c].res = calls[c].err]
  /\ UNCHANGED serverVars /\ UNCHANGED callerVars /\ UNCHANGED raceVars

\* the interceptor's try/catch around its axios.post("/auth/refresh"):
\* on success store the access token and replay the request, on failure clear
\* localStorage, go to /login and reject with the error being recovered from
ReceiveRefresh(c) ==
  /\ calls[c].pc = "refreshResponded"
  /\ IF Ok2xx(calls[c].res)
     THEN LET st == [storage EXCEPT !.accessToken = calls[c].res.accessToken] IN
          /\ storage' = st
          /\ calls' = [calls EXCEPT ![c] = SendVia(calls[c], st)]
          /\ UNCHANGED <<cuser, loading, redirect>>
     ELSE LET a == AfterSettle(calls[c].kind, FALSE, calls[c].err, EmptyStorage,
                               cuser, loading) IN
          /\ storage' = a.storage
          /\ cuser' = a.cuser
          /\ loading' = a.loading
          /\ redirect' = TRUE
          /\ calls' = [calls EXCEPT ![c].pc = "done", ![c].ok = FALSE,
                                    ![c].res = calls[c].err]
  /\ UNCHANGED serverVars /\ UNCHANGED callerVars /\ UNCHANGED raceVars

\* the caller of a settled request is through with it
Return(c) ==
  /\ c # 0
  /\ calls[c].pc = "done"
  /\ calls' = [calls EXCEPT ![c] = NoCall]
  /\ UNCHANGED <<storage, cuser, loading, redirect>>
  /\ UNCHANGED serverVars /\ UNCHANGED callerVars /\ UNCHANGED raceVars

\* a page load (a reload, or the navigation to /login): a new AuthProvider;
\* the requests of the old page are dropped, localStorage stays
PageLoad ==
  /\ calls # FreshPage
  /\ cuser' = NoUser
  /\ loading' = TRUE
  /\ redirect' = FALSE
  /\ calls' = FreshPage
  /\ UNCHANGED storage
  /\ UNCHANGED serverVars /\ UNCHANGED callerVars /\ UNCHANGED raceVars

(* ------------------- the server, serving the client ------------------- *)
\* GET /users/admin/all past the guard
getAllUsers(reqUser) ==
  IF reqUser.role # "admin" THEN Fail(403, "Forbidden - Admin only")
  ELSE Reply(200, "", NoToken, NoToken, NoUser, users, store)

\* the route and handler a request of the client reaches
Handle(call) ==
  IF call.kind = "init" THEN refreshToken(call.token)
  ELSE IF call.kind = "login" THEN login(call.a1, call.a2)
  ELSE IF call.kind = "logout" THEN Guarded(call.bearer, logout(call.token))
  ELSE IF call.kind = "changePassword"
  THEN Guarded(call.bearer,
               changePassword(authenticateToken(call.bearer).user, call.a1, call.a2))
  ELSE Guarded(call.bearer, getAllUsers(authenticateToken(call.bearer).user))

\* the server handles request c and answers
Serve(c) ==
  LET r == Handle(calls[c]) IN
  /\ calls[c].pc = "sent"
  /\ (calls[c].kind = "login" /\ r.status = 200) => logins < MaxLogins
  /\ (calls[c].kind = "changePassword" /\ r.status = 200) => edits < MaxEdits
  /\ logins' = IF calls[c].kind = "login" /\ r.status = 200
               THEN logins + 1 ELSE logins
  /\ edits' = IF calls[c].kind = "changePassword" /\ r.status = 200
              THEN edits + 1 ELSE edits
  /\ users' = r.users
  /\ store' = r.store
  /\ calls' = [calls EXCEPT ![c].pc = "responded", ![c].res = ResOf(r)]
  /\ UNCHANGED <<env, now, ticks, storage, cuser, loading, redirect>>
  /\ UNCHANGED callerVars /\ UNCHANGED raceVars

\* the server handles the interceptor's refresh for request c and answers
ServeRefresh(c) ==
  LET r == refreshToken(calls[c].rtok) IN
  /\ calls[c].pc = "refreshSent"
  /\ calls' = [calls EXCEPT ![c].pc = "refreshResponded", ![c].res = ResOf(r)]
  /\ UNCHANGED <<storage, cuser, loading, redirect>>
  /\ UNCHANGED serverVars /\ UNCHANGED callerVars /\ UNCHANGED raceVars

\* the request, or its response, is lost: axios rejects without a response
NetFail(c) ==
  /\ calls[c].pc \in {"sent", "refreshSent"}
  /\ calls' = [calls EXCEPT
       ![c].pc = IF calls[c].pc = "sent" THEN "responded" ELSE "refreshResponded",
       ![c].res = NetworkError]
  /\ UNCHANGED <<storage, cuser, loading, redirect>>
  /\ UNCHANGED serverVars /\ UNCHANGED callerVars /\ UNCHANGED raceVars

\* a server the client knows nothing about answers request c, or the refresh
\* made for it, with any status
ServeAny(c, status) ==
  /\ calls[c].pc \in {"sent", "refreshSent"}
  /\ calls' = [calls EXCEPT
       ![c].pc = IF calls[c].pc = "sent" THEN "responded" ELSE "refreshResponded",
       ![c].res = IF status = 200
                  THEN Res(200, "", AnyToken, AnyToken, [id |-> 1, role |-> "admin"])
                  ELSE Res(status, "error", NoToken, NoToken, NoUser)]
  /\ UNCHANGED <<storage, cuser, loading, redirect>>
  /\ UNCHANGED serverVars /\ UNCHANGED callerVars /\ UNCHANGED raceVars

ClientStep ==
  \/ Mount
  \/ PageLoad
  \/ \E c \in PageCalls : \E e \in ClientEmails, p \in LoginPasswords :
        StartLogin(c, e, p)
  \/ \E c \in PageCalls : StartLogout(c)
  \/ \E c \in PageCalls : StartGetAllUsers(c)
  \/ \E c \in PageCalls : \E cur \in LoginPasswords, new \in LoginPasswords :
        StartChangePassword(c, cur, new)
  \/ \E c \in CallIds : Receive(c)
  \/ \E c \in CallIds : ReceiveRefresh(c)
  \/ \E c \in PageCalls : Return(c)

\* the browser client against the server of this repository
NextClient ==
  \/ ClientStep
  \/ \E c \in CallIds : Serve(c)
  \/ \E c \in CallIds : ServeRefresh(c)
  \/ \E c \in CallIds : NetFail(c)
  \/ \E d \in TickSizes : Tick(d)

SpecClient == Init /\ [][NextClient]_vars

\* the browser client against a server that answers anything
NextAny ==
  \/ ClientStep
  \/ \E c \in CallIds : \E st \in AnyStatuses : ServeAny(c, st)
  \/ \E c \in CallIds : NetFail(c)

SpecAny == Init /\ [][NextAny]_vars

\* the same, where the mount effect runs, every request of it is answered or
\* lost, and every response of it is handled
SpecAnyFair ==
  /\ SpecAny
  /\ WF_vars(Mount)
  /\ WF_vars(NetFail(0) \/ \E st \in AnyStatuses : ServeAny(0, st))
  /\ WF_vars(Receive(0))
  /\ WF_vars(ReceiveRefresh(0))

\* one page of the browser client issuing requests together, against a server
\* that answers anything
NextBurst ==
  \/ Mount
  \/ \E c \in BurstCalls : \E e \in ClientEmails, p \in LoginPasswords :
        StartLogin(c, e, p)
  \/ \E c \in BurstCalls : StartGetAllUsers(c)
  \/ \E c \in CallIds : \E st \in AnyStatuses : ServeAny(c, st)
  \/ \E c \in CallIds : Receive(c)
  \/ \E c \in CallIds : ReceiveRefresh(c)
  \/ \E c \in BurstCalls : Return(c)

SpecBurst == Init /\ [][NextBurst]_vars

(* ====================================================================== *)
(* Properties of the server                                               *)
(* ====================================================================== *)

\* a refresh request was just served
Refreshed == last.op = "refresh"
\* a changePassword request that passed the guard and the field validation
\* was just served for the account uid
PasswordChangeTried ==
  /\ last.op = "changePassword"
  /\ last.uid \in Users
  /\ last.cur # "" /\ last.new # ""
  /\ Len(last.new) >= MinPasswordLen
\* rows of the refresh_tokens table owned by account u
RowsOf(u) == {r \in store : r.user_id = u}

\* C1: a refresh answers with an access credential only if the token's row is
\* in the refresh_tokens table and the token verifies against the refresh
\* secret; a token that verifies but whose row is gone is rejected with 403
\* and gets no credential.
C1_RefreshNeedsRowAndSignature ==
  Refreshed =>
    /\ last.status = 200 =>
         /\ last.token \in StoredTokens
         /\ JwtVerify(last.token, REFRESH_SECRET)
    /\ last.accessToken # NoToken => last.status = 200
    /\ (JwtVerify(last.token, REFRESH_SECRET) /\ last.token \notin StoredTokens) =>
         /\ last.status = 403
         /\ last.accessToken = NoToken

\* C1 witness: an unexpired, well-signed token whose row was deleted was
\* refused.
C1_Witness ==
  /\ Refreshed
  /\ JwtVerify(last.token, REFRESH_SECRET)
  /\ last.token \notin StoredTokens
  /\ last.status = 403

\* C2: once logout(R) has completed with success, every later refresh(R) is
\* answered 403 "Token revoked", whatever happened in between.
C2_RevokedStaysRevoked ==
  (Refreshed /\ revoked # NoToken /\ last.token = revoked) =>
    /\ last.status = 403
    /\ last.message = "Token revoked"

\* C3: a successful changePassword of account U deletes every
\* refresh_tokens row of U and no row of another account, and each deleted
\* token is then refused by refresh with 403 "Token revoked", expired or not.
C3_ChangePasswordRevokesAll ==
  [][(last'.op = "changePassword" /\ last'.status = 200) =>
       /\ store' = {r \in store : r.user_id # last'.uid}
       /\ \A r \in RowsOf(last'.uid) :
            /\ (refreshToken(r.token).status)' = 403
            /\ (refreshToken(r.token).message)' = "Token revoked"]_vars

\* C3 witness: a password change has just removed an unexpired token of its
\* account while a row of the other account is still stored.
C3_Witness ==
  /\ last.op = "changePassword" /\ last.status = 200
  /\ held[last.uid].rt # NoToken
  /\ JwtVerify(held[last.uid].rt, REFRESH_SECRET)
  /\ held[last.uid].rt \notin StoredTokens
  /\ \E r \in store : r.user_id # last.uid

\* C4: changePassword with a wrong current password answers 401, leaves the
\* users table and the refresh_tokens table as they were, and every stored
\* token of the account is answered by refresh as before: 200 when unexpired.
C4_WrongPasswordChangesNothing ==
  [][(PasswordChangeTried' /\
      ~BcryptCompare(last'.cur, users[last'.uid].password_hash)) =>
       /\ last'.status = 401
       /\ last'.message = "Current password is incorrect"
       /\ users' = users
       /\ store' = store
       /\ \A r \in RowsOf(last'.uid) :
            /\ (refreshToken(r.token).status)' = refreshToken(r.token).status
            /\ JwtVerify(r.token, REFRESH_SECRET) =>
                 (refreshToken(r.token).status)' = 200]_vars

\* C4 witness: a password change with a wrong current password was refused
\* while the account had an unexpired token stored.
C4_Witness ==
  /\ PasswordChangeTried
  /\ ~BcryptCompare(last.cur, users[last.uid].password_hash)
  /\ last.status = 401
  /\ \E r \in RowsOf(last.uid) : JwtVerify(r.token, REFRESH_SECRET)

\* the callers whose last login returned the token just refreshed
HoldersOf(token) == {s \in Sessions : held[s].rt = token}

\* C5 as stated: a successful refresh yields an access credential whose id and
\* role are those of the identity the login returned.
C5_RoleAsAtLogin ==
  (Refreshed /\ last.status = 200) =>
    \A s \in HoldersOf(last.token) :
      /\ last.accessToken.id = held[s].user.id
      /\ last.accessToken.role = held[s].user.role

\* C5 amended: a successful refresh yields a valid access credential whose id
\* is the id of the identity the login returned and whose role is the role
\* the users table stores for that id when the refresh is served.
C5_RoleAsStored ==
  (Refreshed /\ last.status = 200) =>
    /\ JwtVerify(last.accessToken, ACCESS_SECRET)
    /\ last.accessToken.id = last.token.id
    /\ \A s \in HoldersOf(last.token) : last.accessToken.id = held[s].user.id
    /\ last.accessToken.role = users[last.accessToken.id].role

\* C5 witness: a refresh succeeded for a caller whose role was changed after
\* its login.
C5_Witness ==
  /\ Refreshed /\ last.status = 200
  /\ \E s \in HoldersOf(last.token) :
       /\ last.accessToken.id = held[s].user.id
       /\ last.accessToken.role # held[s].user.role

C7_LogoutIdempotent ==
  [][(last'.op = "logout" /\ last' # last /\ last'.uid # 0) =>
       /\ last'.status = 200
       /\ last'.message = "Logged out successfully"
       /\ store' = {r \in store : r.token # last'.token}
       /\ last'.again => (store' = store /\ last'.message = last.message)]_vars

\* C7 witness: a logout was repeated for a token whose row was already gone.
C7_Witness ==
  /\ last.op = "logout" /\ last.again /\ last.status = 200
  /\ last.token \notin {NoToken, Garbage}
  /\ last.token \notin StoredTokens

(* ====================================================================== *)
(* Properties of the browser client                                        *)
(* ====================================================================== *)
ExpiredAnswer(res) ==
  res.status = 403 /\ res.message = "Invalid or expired token"

\* C8: whatever the server answered to the revoke call, or if nothing came
\* back, at the step where the client's logout() finishes localStorage holds no
\* access token, no refresh token and no user, and the provider's user is null.
C8_LogoutFailOpen ==
  [][\A c \in PageCalls :
       (calls'[c].kind = "logout" /\ calls'[c].pc = "done" /\ calls[c].pc # "done")
         => (storage' = EmptyStorage /\ cuser' = NoUser)]_vars

\* C8 witness: a logout() that sent the revoke call from a logged-in page has
\* finished with the server's 500, and storage and user are cleared.
C8_Witness ==
  \E c \in PageCalls :
    /\ calls[c].kind = "logout" /\ calls[c].pc = "done"
    /\ calls[c].token # NoToken /\ calls[c].bearer # NoToken
    /\ ~calls[c].ok /\ calls[c].res.status = 500
    /\ storage = EmptyStorage /\ cuser = NoUser

\* C9: for every request of the client and whatever the server answers, the
\* interceptor starts at most one refresh for it and the request is sent at
\* most twice; the response to the second sending settles the request.
C9_OneRefreshTwoSends ==
  [][\A c \in CallIds :
       /\ calls'[c].refreshes <= 1
       /\ calls'[c].sends <= 2
       /\ (calls[c].pc = "responded" /\ calls[c].sends = 2 /\ calls'[c] # calls[c])
            => (calls'[c].pc = "done" \/ calls' = FreshPage)]_vars

\* C9 witness: a request was answered 401, the refresh made for it succeeded,
\* its replay was answered 401 again, and it settled as failed.
C9_Witness ==
  \E c \in PageCalls :
    /\ calls[c].pc = "done" /\ ~calls[c].ok
    /\ calls[c].retry /\ calls[c].refreshes = 1 /\ calls[c].sends = 2
    /\ calls[c].res.status = 401

\* C10: a request to the admin-only listing, made by a logged-in admin whose
\* access token has expired and whose stored refresh token the server still
\* accepts, and answered 403 "Invalid or expired token", settles as succeeded
\* after exactly one refresh and one replay.
C10_ExpiredAccessIsRenewed ==
  \A c \in PageCalls :
    ( /\ calls[c].kind = "getAllUsers" /\ calls[c].pc = "done"
      /\ storage.user.role = "admin"
      /\ \/ calls[c].sends = 1 /\ ExpiredAnswer(calls[c].res)
         \/ calls[c].retry /\ ExpiredAnswer(calls[c].err)
      /\ refreshToken(storage.refreshToken).status = 200 )
    => (calls[c].ok /\ calls[c].sends = 2 /\ calls[c].refreshes = 1)

\* C11: when the silent refresh of the mount effect, or the refresh the
\* interceptor makes for a request other than logout, gets no response from
\* the server while a refresh token is stored, the request settles with
\* localStorage, the provider's user and the location as they were.
C11_NetworkFailureKeepsSession ==
  [][\A c \in CallIds :
       ( /\ calls[c].res = NetworkError
         /\ storage.refreshToken # NoToken
         /\ calls'[c].pc = "done"
         /\ \/ calls[c].kind = "init" /\ calls[c].pc = "responded"
            \/ calls[c].kind # "logout" /\ calls[c].pc = "refreshResponded" )
       => (storage' = storage /\ cuser' = cuser /\ redirect' = redirect)]_vars

\* a response by which the guard rejects the access credential of a request
GuardRejection(res) ==
  \/ res.status = 401 /\ res.message = "Access Denied: No token provided"
  \/ res.status = 403 /\ res.message = "Invalid or expired token"

\* C12: an error response that is not a rejection of the access credential
\* (a handler's 400, 401, 404 or 500, or no response at all) settles its
\* request as failed with that same error: no refresh is started, the request
\* is not sent again and, unless the caller is logout or the mount effect,
\* localStorage is left as it was.
C12_OtherErrorsBubbleUnchanged ==
  [][\A c \in CallIds :
       ( /\ calls[c].pc = "responded"
         /\ ~Ok2xx(calls[c].res) /\ ~GuardRejection(calls[c].res)
         /\ calls'[c] # calls[c] /\ calls' # FreshPage )
       => /\ calls'[c].pc = "done" /\ ~calls'[c].ok
          /\ calls'[c].res = calls[c].res
          /\ calls'[c].refreshes = calls[c].refreshes
          /\ calls'[c].sends = calls[c].sends
          /\ calls[c].kind \notin {"logout", "init"} => storage' = storage]_vars

LoginMatches ==
  {u \in Users : /\ users[u].email = last.cur
                 /\ BcryptCompare(last.new, users[u].password_hash)}

\* C14: a login with an email no account has, or with a password that does not
\* match, is answered 401 "Invalid Credentials" with no token and both tables
\* unchanged.  A login answered 200 has added exactly one row that was not there
\* before, owned by the account that matched the email and password and
\* expiring in 7 days, and returns an access token, the refresh token of that
\* row and the id and role of that account; the row is in the table in the
\* state in which the response exists.
C14_LoginPersistsOneRecord ==
  [][(last'.op = "login" /\ last' # last) =>
       /\ LoginMatches' = {} =>
            /\ last'.status = 401 /\ last'.message = "Invalid Credentials"
            /\ last'.accessToken = NoToken /\ last'.refreshToken = NoToken
            /\ store' = store /\ users' = users
       /\ LoginMatches' # {} => last'.status \in {200, 500}
       /\ last'.status # 200 => store' = store
       /\ last'.status = 200 =>
            /\ last'.user.id \in LoginMatches'
            /\ last'.user.role = users[last'.user.id].role
            /\ last'.accessToken # NoToken
            /\ last'.accessToken.id = last'.user.id
            /\ last'.refreshToken \notin StoredTokens
            /\ store' = store \cup {[token |-> last'.refreshToken,
                                     user_id |-> last'.user.id,
                                     expires_at |-> now + RefreshTTL]}
            /\ Cardinality(store') = Cardinality(store) + 1
            /\ users' = users]_vars

\* C14 witness: a second login was just answered 200 and its refresh token is
\* stored next to the row of the first.
C14_Witness ==
  /\ last.op = "login" /\ last.status = 200
  /\ last.refreshToken \in StoredTokens
  /\ Cardinality(store) = 2

\* C15: on a server started with neither JWT_SECRET nor JWT_REFRESH_SECRET,
\* every login is answered with a 5xx, returns no token and adds no row.
C15_MissingSecretsFailLogin ==
  [][( /\ last'.op = "login" /\ last' # last
       /\ env.JWT_SECRET = Unset /\ env.JWT_REFRESH_SECRET = Unset )
     => /\ last'.status >= 500
        /\ last'.accessToken = NoToken /\ last'.refreshToken = NoToken
        /\ store' = store]_vars

\* C16: under every deployment, the tokens a login returned are signed with
\* different keys; the refresh token does not pass the guard and the access
\* token does not pass the refresh endpoint's jwt.verify.
C16_TokenTypesNotInterchangeable ==
  \A s \in Sessions :
    held[s].rt # NoToken =>
      /\ held[s].at.key # held[s].rt.key
      /\ ~authenticateToken(held[s].rt).ok
      /\ ~JwtVerify(held[s].at, REFRESH_SECRET)

\* C17: an access token a login returned is accepted by the guard exactly
\* while the clock is before its exp, which is 15 minutes after its iat,
\* whatever logouts, password changes and deletions of refresh rows have
\* happened since.
C17_AccessOutlivesRevocation ==
  \A s \in Sessions :
    held[s].at # NoToken =>
      /\ held[s].at.exp = held[s].at.iat + AccessTTL
      /\ authenticateToken(held[s].at).ok <=> now < held[s].at.exp

\* C17 witness: a password change has just removed every refresh row of the
\* account, and the access token it was made with still passes the guard.
C17_Witness ==
  \E s \in Sessions :
    /\ last.op = "changePassword" /\ last.status = 200
    /\ last.uid = held[s].user.id
    /\ RowsOf(held[s].user.id) = {}
    /\ authenticateToken(held[s].at).ok

\* C18: at the step where the silent refresh of the mount effect settles: if it
\* succeeded, the returned access token is stored, the stored refresh token
\* and user and the provider's user stay as they were, and loading ends; if it
\* failed, localStorage is empty, the provider's user is null, and loading ends.
C18_InitKeepsOrClears ==
  [][( /\ calls[0].kind = "init"
       /\ calls[0].pc \in {"responded", "refreshResponded"}
       /\ calls'[0].pc = "done" )
     => /\ loading' = FALSE
        /\ calls'[0].ok =>
             /\ calls[0].res.accessToken # NoToken
             /\ storage' = [storage EXCEPT !.accessToken = calls[0].res.accessToken]
             /\ cuser' = cuser
        /\ ~calls'[0].ok =>
             /\ storage' = EmptyStorage
             /\ cuser' = NoUser]_vars

\* C18 witness: the page was loaded with a cached session, its silent refresh
\* succeeded, and the provider holds the cached user with the new access token
\* stored.
C18_Witness ==
  /\ calls[0].kind = "init" /\ calls[0].pc = "done" /\ calls[0].ok
  /\ calls[0].token # NoToken /\ calls[0].token = storage.refreshToken
  /\ storage.accessToken = calls[0].res.accessToken
  /\ storage.accessToken # NoToken
  /\ cuser # NoUser /\ cuser = storage.user
  /\ ~loading

C20_NoRefreshAfterRevocation ==
  [][(last'.op = "refresh" /\ last' # last /\ last'.status = 200) =>
       last'.token \in StoredTokens']_vars

C24_NoOldPasswordSessionSurvives ==
  [][(last'.op = "login" /\ last' # last /\ last'.status = 200) =>
       /\ last'.refreshToken \in StoredTokens'
       /\ BcryptCompare(last'.new, users'[last'.uid].password_hash)]_vars

\* C25: when a changePassword that reached its UPDATE finishes, for an account
\* that had refresh rows, either the hash is the new one and the account has
\* no refresh row left, or the hash is the one from before the call and the
\* rows are as they were; this also when it answers 500.
C25_ChangePasswordAllOrNothing ==
  [][( /\ pending.pc = "updated" /\ pending'.pc = "none"
       /\ RowsOf(pending.uid) # {} )
     => \/ /\ users'[pending.uid].password_hash # pending.hash
           /\ {r \in store' : r.user_id = pending.uid} = {}
        \/ /\ users'[pending.uid].password_hash = pending.hash
           /\ store' = store]_vars

\* C27: a logout that the server answers to the browser removes only refresh
\* rows owned by the account of the access token the request carried.
C27_LogoutRemovesOwnRowsOnly ==
  [][\A c \in CallIds :
       ( /\ calls[c].kind = "logout"
         /\ calls[c].pc = "sent" /\ calls'[c].pc = "responded"
         /\ calls'[c].res # NetworkError )
       => \A r \in store \ store' : r.user_id = calls[c].bearer.id]_vars

\* C26: when logout() was called with a refresh token stored and every request
\* it caused was answered by the server, the row of that token is out of the
\* refresh_tokens table at the step where logout() finishes.
C26_LogoutRevokesServerSide ==
  [][\A c \in PageCalls :
       ( /\ calls'[c].kind = "logout"
         /\ calls[c].pc # "done" /\ calls'[c].pc = "done"
         /\ calls'[c].token # NoToken
         /\ calls[c].res # NetworkError /\ calls'[c].res # NetworkError )
       => calls'[c].token \notin StoredTokens']_vars

\* C22: when the refresh the interceptor made for a request fails (an error
\* status or no response), the request is not sent again and settles as failed
\* with the error the refresh was made for, localStorage is empty, and the
\* location is set to /login.
C22_RefreshFailureLogsOut ==
  [][\A c \in CallIds :
       ( /\ calls[c].pc = "refreshResponded" /\ ~Ok2xx(calls[c].res)
         /\ calls'[c] # calls[c] /\ calls' # FreshPage )
       => /\ calls'[c].pc = "done" /\ ~calls'[c].ok
          /\ calls'[c].sends = calls[c].sends
          /\ calls'[c].res = calls[c].err
          /\ storage' = EmptyStorage
          /\ redirect']_vars

\* C22 witness: a request of a logged-in page was answered 401, the refresh
\* made for it was answered 403, and the request has settled as failed with
\* the 401, sent once, localStorage empty and the location set to /login.
C22_Witness ==
  \E c \in PageCalls :
    /\ calls[c].pc = "done" /\ ~calls[c].ok
    /\ calls[c].rtok # NoToken
    /\ calls[c].retry /\ calls[c].refreshes = 1 /\ calls[c].sends = 1
    /\ calls[c].res.status = 401
    /\ storage = EmptyStorage /\ redirect

\* C28: in every state after the mount effect has finished (loading is false),
\* the provider's user is non-null only if localStorage holds a refresh token.
C28_UserOnlyWithRefreshToken ==
  (~loading /\ cuser # NoUser) => storage.refreshToken # NoToken

\* C29: once the silent refresh of the mount effect and a logout() of the same
\* page have both settled, in whichever order, localStorage holds no access
\* token and no refresh token.
C29_LogoutWinsOverLateRefresh ==
  ( /\ calls[0].kind = "init" /\ calls[0].pc = "done" /\ calls[0].sends > 0
    /\ \E c \in PageCalls : calls[c].kind = "logout" /\ calls[c].pc = "done" )
  => (storage.accessToken = NoToken /\ storage.refreshToken = NoToken)

\* C21: when several requests issued together are each answered 401, the
\* interceptor starts a refresh for each of them, whether or not a refresh for
\* another one is in flight, and leaves the other requests as they are; each
\* request whose refresh succeeds is sent again once; no request has more than
\* one refresh or more than two sendings.
C21_OneRefreshPerRequest ==
  [][\A c \in BurstCalls :
       /\ ( /\ calls[c].pc = "responded" /\ calls[c].res.status = 401
            /\ ~calls[c].retry /\ calls'[c] # calls[c] )
          => /\ calls'[c].pc = "refreshSent"
             /\ calls'[c].refreshes = 1 /\ calls'[c].sends = 1
             /\ \A d \in CallIds \ {c} : calls'[d] = calls[d]
       /\ ( /\ calls[c].pc = "refreshResponded" /\ Ok2xx(calls[c].res)
            /\ calls'[c] # calls[c] )
          => /\ calls'[c].pc = "sent"
             /\ calls'[c].refreshes = 1 /\ calls'[c].sends = 2
       /\ calls'[c].refreshes <= 1 /\ calls'[c].sends <= 2]_vars

\* C21 witness: every request of a burst was answered 401 and has its own
\* refresh in flight at the same time.
C21_Witness ==
  \A c \in BurstCalls :
    /\ calls[c].kind = "getAllUsers" /\ calls[c].pc = "refreshSent"
    /\ calls[c].err.status = 401
    /\ calls[c].refreshes = 1 /\ calls[c].sends = 1

\* C30: on a page that is not loaded again, loading becomes false and stays
\* false, whether no refresh token was cached, the silent refresh succeeded or
\* it failed; loading goes from false to true only by a page load; and when
\* loading is false the mount effect has finished.
C30_InitTerminates ==
  /\ <>[][~PageLoad]_vars => <>[](~loading)
  /\ [][(~loading /\ loading') => calls' = FreshPage]_vars
  /\ [](~loading => calls[0].pc = "done")

\* C30 witness: the silent refresh of a cached token failed, the mount effect
\* has finished, loading is false and the provider's user is null.
C30_Witness ==
  /\ ~loading /\ cuser = NoUser
  /\ calls[0].pc = "done" /\ ~calls[0].ok
  /\ calls[0].token # NoToken /\ calls[0].sends > 0

====
